---- MODULE Spec2Model ----
(***************************************************************************)
(* Model of nomad/encrypter.go (the root-key keyring: keystore loader,     *)
(* key generator, persist, Encrypt/Decrypt) and of                         *)
(* nomad/blocked_evals_stats.go (resource statistics of blocked evals).    *)
(***************************************************************************)
EXTENDS Integers, Sequences, FiniteSets, TLC

VARIABLES
    rootKind,    \* what the keystore path is on disk
    disk,        \* directory entries of the keystore directory, by file name
    encrypter,   \* the *Encrypter the owning process holds
    proc,        \* "running" or "panicked"
    held,        \* the root key the caller got from its latest GenerateNewRootKey
    produced,    \* envelopes returned by Encrypt so far
    persisted,   \* root keys PersistRootKey has written successfully
    last,        \* the most recent call and what it returned
    statsB,      \* receiver of BlockedResourcesStats.Add
    statsA,      \* argument of BlockedResourcesStats.Add
    statsResult, \* value returned by BlockedResourcesStats.Add
    bstats,      \* the *BlockedStats of the blocked eval tracker
    blocked,     \* the evaluations that are blocked now
    clock,       \* the latest time time.Now() returned
    trackerLast  \* the most recent call on the tracker and how it ended

keyringVars == <<rootKind, disk, encrypter, proc, held, produced, persisted, last>>
statsVars == <<statsB, statsA, statsResult>>
trackerVars == <<bstats, blocked, clock, trackerLast>>
vars == <<rootKind, disk, encrypter, proc, held, produced, persisted, last,
          statsB, statsA, statsResult, bstats, blocked, clock, trackerLast>>

----------------------------------------------------------------------------
(* Bounds of the model *)

MaxEnvelopes == 1
MaxMsgLen == 1
MaxStat == 1
MaxTime == 1
MaxClock == 2

----------------------------------------------------------------------------
(* Program constants *)

AESKeySize == 32
ChaChaKeySize == 32

EncryptionAlgorithmAES256GCM == "aes256-gcm"
EncryptionAlgorithmXChaCha20 == "xchacha20poly1305"

SupportedAlgorithms == {EncryptionAlgorithmAES256GCM, EncryptionAlgorithmXChaCha20}

\* algorithm identifiers callers may pass; the last one is not an algorithm
\* the program knows
Algorithms == {EncryptionAlgorithmAES256GCM, EncryptionAlgorithmXChaCha20, "rot13"}

\* key IDs (UUIDs)
KeyIDs == {"id1", "id2"}

IsUUID(s) == s \in KeyIDs

----------------------------------------------------------------------------
(* encoding/base64, StdEncoding: characters are sextet values 0..63, the   *)
(* padding character '=' is 64                                             *)

Pad == 64

ByteAt(b, i) == IF i <= Len(b) THEN b[i] ELSE 0

\* the 24-bit group starting at byte 3g+1
Group24(b, g) ==
    ByteAt(b, 3 * g + 1) * 65536 + ByteAt(b, 3 * g + 2) * 256 + ByteAt(b, 3 * g + 3)

EncodedLen(n) == ((n + 2) \div 3) * 4

EncodeToString(b) ==
    [c \in 1..EncodedLen(Len(b)) |->
        LET g == (c - 1) \div 4
            p == (c - 1) % 4
            avail == IF Len(b) - 3 * g >= 3 THEN 3 ELSE Len(b) - 3 * g
            shift == IF p = 0 THEN 262144 ELSE IF p = 1 THEN 4096
                     ELSE IF p = 2 THEN 64 ELSE 1
        IN IF p > avail THEN Pad ELSE (Group24(b, g) \div shift) % 64]

DecodedLen(n) == (n \div 4) * 3

\* number of trailing padding characters
PadCount(s) ==
    IF Len(s) >= 2 /\ s[Len(s)] = Pad /\ s[Len(s) - 1] = Pad THEN 2
    ELSE IF Len(s) >= 1 /\ s[Len(s)] = Pad THEN 1
    ELSE 0

WellFormedBase64(s) ==
    /\ Len(s) % 4 = 0
    /\ \A i \in 1..Len(s) :
          \/ s[i] \in 0..63
          \/ s[i] = Pad /\ i > Len(s) - PadCount(s)

SextetAt(s, i) == IF s[i] = Pad THEN 0 ELSE s[i]

\* base64.StdEncoding.Decode(dst, src) where dst has length dstLen: the n
\* decoded bytes are written to the front of dst, the rest of dst keeps the
\* zero bytes make() gave it
Decode(dstLen, s) ==
    IF ~WellFormedBase64(s)
    THEN [err |-> "CorruptInput", dst |-> [i \in 1..dstLen |-> 0], n |-> 0]
    ELSE LET n == DecodedLen(Len(s)) - PadCount(s)
         IN [err |-> "",
             n |-> n,
             dst |-> [i \in 1..dstLen |->
                        IF i > n THEN 0
                        ELSE LET g == (i - 1) \div 3
                                 q == (i - 1) % 3
                                 v == SextetAt(s, 4 * g + 1) * 262144
                                      + SextetAt(s, 4 * g + 2) * 4096
                                      + SextetAt(s, 4 * g + 3) * 64
                                      + SextetAt(s, 4 * g + 4)
                             IN IF q = 0 THEN v \div 65536
                                ELSE IF q = 1 THEN (v \div 256) % 256
                                ELSE v % 256]]

----------------------------------------------------------------------------
(* Keys and key files *)

Bytes(n, v) == [i \in 1..n |-> v]

\* outcomes of cryptorand.Read into a 32 byte buffer
RandomKeys == {Bytes(32, 7)}

NoMeta == [KeyID |-> "", Algorithm |-> ""]

\* a *structs.RootKey; isNil marks the nil pointer
NilRootKey == [isNil |-> TRUE, Meta |-> NoMeta, Key |-> <<>>]

\* the JSON document of a file: valid = it is syntactically JSON,
\* hasMeta = the "Meta" member is a non-null object
Document(valid, hasMeta, id, alg, key) ==
    [valid |-> valid, hasMeta |-> hasMeta, KeyID |-> id, Algorithm |-> alg,
     Key |-> key]

GarbageDoc == Document(FALSE, FALSE, "", "", <<>>)

\* json.Marshal of a structs.RootKey: Meta as an object, Key ([]byte) as a
\* base64 string
jsonMarshal(rootKey) ==
    Document(TRUE, TRUE, rootKey.Meta.KeyID, rootKey.Meta.Algorithm,
             EncodeToString(rootKey.Key))

\* an *api.RootKey; isNil marks the nil pointer
NilApiRootKey == [isNil |-> TRUE, hasMeta |-> FALSE, Meta |-> NoMeta, Key |-> <<>>]

\* json.Unmarshal(raw, v): a syntax error for invalid JSON, an
\* InvalidUnmarshalError when v is a nil pointer, otherwise *v is filled in
jsonUnmarshal(raw, v) ==
    IF ~raw.valid THEN [err |-> "SyntaxError", val |-> v]
    ELSE IF v.isNil THEN [err |-> "InvalidUnmarshalError", val |-> v]
    ELSE [err |-> "",
          val |-> [isNil |-> FALSE, hasMeta |-> raw.hasMeta,
                   Meta |-> [KeyID |-> raw.KeyID, Algorithm |-> raw.Algorithm],
                   Key |-> raw.Key]]

validateKeyFromStore(rootKey, id) ==
    IF rootKey.isNil THEN "root key envelope is missing"
    ELSE IF ~rootKey.hasMeta THEN "root key metadata is required"
    ELSE IF rootKey.Meta.KeyID = "" \/ rootKey.Meta.KeyID # id
         THEN "root key UUID is required and must match key file"
    ELSE IF rootKey.Meta.Algorithm = "" THEN "algorithm is required"
    ELSE ""

\* aes.NewCipher followed by cipher.NewGCM
aesNewGCM(key) ==
    IF Len(key) \in {16, 24, AESKeySize}
    THEN [err |-> "", aead |-> [alg |-> EncryptionAlgorithmAES256GCM, key |-> key]]
    ELSE [err |-> "could not create cipher",
          aead |-> [alg |-> "", key |-> <<>>]]

\* chacha20poly1305.NewX
chachaNewX(key) ==
    IF Len(key) = ChaChaKeySize
    THEN [err |-> "", aead |-> [alg |-> EncryptionAlgorithmXChaCha20, key |-> key]]
    ELSE [err |-> "could not create cipher",
          aead |-> [alg |-> "", key |-> <<>>]]

\* file names of the keystore directory, in the lexical order
\* filepath.Walk visits them
FileNames == <<[base |-> "id1", ext |-> ".json"],
               [base |-> "id1", ext |-> ".txt"],
               [base |-> "id2", ext |-> ".json"],
               [base |-> "notes", ext |-> ".json"],
               [base |-> "sub", ext |-> ""]>>

KeyFileName(id) == [base |-> id, ext |-> ".json"]

File(doc) == [isDir |-> FALSE, doc |-> doc]
Dir == [isDir |-> TRUE, doc |-> GarbageDoc]

\* m with key k set to v
MapPut(m, k, v) == [x \in (DOMAIN m) \cup {k} |-> IF x = k THEN v ELSE m[x]]

EmptyMap == [x \in {} |-> 0]

\* what a step of the load returns: the error ("" for none) and the ciphers
\* map as the step leaves it
Loaded(err, ciphers) == [err |-> err, ciphers |-> ciphers]

\* loadKeyFromPath, the switch on the algorithm's cases: c is what the
\* cipher constructor returned
registerCipher(ciphers, rootKey, c) ==
    IF c.err # "" THEN Loaded(c.err, ciphers)
    ELSE Loaded("", MapPut(ciphers, rootKey.Meta.KeyID, c.aead))

\* loadKeyFromPath from the check of the base64 decoding on: dec is what
\* Decode returned, dec.dst the buffer key
loadDecoded(ciphers, rootKey, dec) ==
    IF dec.err # "" THEN Loaded("could not decode key", ciphers)
    ELSE IF rootKey.Meta.Algorithm = EncryptionAlgorithmAES256GCM
         THEN registerCipher(ciphers, rootKey, aesNewGCM(dec.dst))
    ELSE IF rootKey.Meta.Algorithm = EncryptionAlgorithmXChaCha20
         THEN registerCipher(ciphers, rootKey, chachaNewX(dec.dst))
    ELSE Loaded("", ciphers)

\* loadKeyFromPath from the check of json.Unmarshal's error on: um is what
\* Unmarshal returned, um.val the variable rootKey
loadParsed(ciphers, id, um) ==
    IF um.err # "" THEN Loaded(um.err, ciphers)
    ELSE IF validateKeyFromStore(um.val, id) # ""
         THEN Loaded(validateKeyFromStore(um.val, id), ciphers)
    ELSE loadDecoded(ciphers, um.val,
                     Decode(DecodedLen(Len(um.val.Key)), um.val.Key))

\* the closure loadKeyFromPath of encrypterFromKeystore: ciphers is the map
\* it writes to, entry the file at the path
loadKeyFromPath(ciphers, name, entry) ==
    IF name.ext # ".json" THEN Loaded("", ciphers)
    ELSE IF ~IsUUID(name.base) THEN Loaded("", ciphers)
    ELSE loadParsed(ciphers, name.base, jsonUnmarshal(entry.doc, NilApiRootKey))

\* the WalkFunc's wrapping of loadKeyFromPath's error
wrapLoadError(r) ==
    IF r.err # "" THEN Loaded("could not load key file", r.ciphers) ELSE r

\* the WalkFunc encrypterFromKeystore hands to filepath.Walk: err is the
\* error Walk reports for the path ("" for none)
walkFn(ciphers, name, entry, err) ==
    IF err # "" THEN Loaded("could not read path", ciphers)
    ELSE IF entry.isDir THEN Loaded("SkipDir", ciphers)
    ELSE wrapLoadError(loadKeyFromPath(ciphers, name, entry))

\* the entries of a directory from position i on, as filepath.Walk's walk
\* visits them: a SkipDir returned for a directory entry skips that entry,
\* any other error ends the walk; r is what walkFn returned for entry i
RECURSIVE walkEntries(_, _, _)
RECURSIVE walkEntry(_, _, _)
walkEntry(dir, i, r) ==
    IF r.err # "" /\ ~(dir[FileNames[i]].isDir /\ r.err = "SkipDir") THEN r
    ELSE walkEntries(r.ciphers, dir, i + 1)

walkEntries(ciphers, dir, i) ==
    IF i > Len(FileNames) THEN Loaded("", ciphers)
    ELSE IF FileNames[i] \notin DOMAIN dir THEN walkEntries(ciphers, dir, i + 1)
    ELSE walkEntry(dir, i, walkFn(ciphers, FileNames[i], dir[FileNames[i]], ""))

\* the name of the keystore path itself
RootName == [base |-> "keystore", ext |-> ""]

\* walk of a readable directory: r1 is what walkFn returned for the
\* directory itself; any error of it (SkipDir included) ends the walk
\* before an entry is visited
walkInto(dir, r1) ==
    IF r1.err # "" THEN r1 ELSE walkEntries(r1.ciphers, dir, 1)

\* filepath's walk(root, info, walkFn): a file is handed to walkFn, a
\* directory is read, handed to walkFn with the error of reading it, and
\* then entered
walk(kind, dir) ==
    IF kind = "file" THEN walkFn(EmptyMap, RootName, File(GarbageDoc), "")
    ELSE IF kind = "unreadable"
         THEN walkFn(EmptyMap, RootName, Dir, "permission denied")
    ELSE walkInto(dir, walkFn(EmptyMap, RootName, Dir, ""))

\* Walk turns a SkipDir that reaches it into success
skipDirToNil(r) == IF r.err = "SkipDir" THEN Loaded("", r.ciphers) ELSE r

\* filepath.Walk(root, walkFn): when Lstat of the root fails walkFn gets
\* the error, otherwise the root is walked
filepathWalk(kind, dir) ==
    skipDirToNil(IF kind = "missing" THEN walkFn(EmptyMap, RootName, Dir, "lstat")
                 ELSE walk(kind, dir))

NoEncrypter == [isNil |-> TRUE, ciphers |-> EmptyMap]

\* the return statements of encrypterFromKeystore: w is what Walk returned
encrypterOrError(w) ==
    IF w.err # "" THEN [err |-> w.err, e |-> NoEncrypter]
    ELSE [err |-> "", e |-> [isNil |-> FALSE, ciphers |-> w.ciphers]]

encrypterFromKeystore(kind, dir) == encrypterOrError(filepathWalk(kind, dir))

----------------------------------------------------------------------------
(* The operations of the Encrypter *)

\* byte strings callers pass to Encrypt and Decrypt
MsgBytes == {255}

Msgs == UNION {[1..n -> MsgBytes] : n \in 0..MaxMsgLen}

\* Encrypt(unencryptedData, keyID): the returned buffer
Encrypt(e, unencryptedData, keyID) == unencryptedData

\* a Decrypt that takes the first byte for a nonce and drops it
DecryptDropsNonce(e, encryptedData, keyID) ==
    [out |-> IF Len(encryptedData) > 0 THEN Tail(encryptedData) ELSE encryptedData,
     err |-> ""]

\* Decrypt(encryptedData, keyID): the returned buffer and error
Decrypt(e, encryptedData, keyID) == [out |-> encryptedData, err |-> ""]

\* a GenerateNewRootKey that also puts the key it made into e.ciphers
GenerateNewRootKeyRegisters(e, dir, algorithm, id, rnd, rndErr) ==
    IF rndErr # "" /\ algorithm \in {EncryptionAlgorithmAES256GCM, EncryptionAlgorithmXChaCha20}
    THEN [err |-> rndErr, rootKey |-> NilRootKey, e |-> e, dir |-> dir]
    ELSE [err |-> "",
          rootKey |-> [isNil |-> FALSE, Meta |-> [KeyID |-> id, Algorithm |-> algorithm],
                       Key |-> rnd],
          e |-> [e EXCEPT !.ciphers = MapPut(e.ciphers, id, [alg |-> algorithm, key |-> rnd])],
          dir |-> dir]

\* e.GenerateNewRootKey(algorithm) with id the UUID NewRootKeyMeta draws and
\* rnd the bytes cryptorand.Read delivers; rndErr is the error of that read.
\* The result carries the returned key and error, and the receiver and the
\* keystore directory as the call leaves them
GenerateNewRootKey(e, dir, algorithm, id, rnd, rndErr) ==
    LET meta == [KeyID |-> id, Algorithm |-> algorithm] IN
    IF algorithm = EncryptionAlgorithmAES256GCM
    THEN IF rndErr # "" THEN [err |-> rndErr, rootKey |-> NilRootKey, e |-> e, dir |-> dir]
         ELSE [err |-> "", rootKey |-> [isNil |-> FALSE, Meta |-> meta, Key |-> rnd],
               e |-> e, dir |-> dir]
    ELSE IF algorithm = EncryptionAlgorithmXChaCha20
    THEN IF rndErr # "" THEN [err |-> rndErr, rootKey |-> NilRootKey, e |-> e, dir |-> dir]
         ELSE [err |-> "", rootKey |-> [isNil |-> FALSE, Meta |-> meta, Key |-> rnd],
               e |-> e, dir |-> dir]
    ELSE [err |-> "", rootKey |-> [isNil |-> FALSE, Meta |-> meta, Key |-> <<>>],
          e |-> e, dir |-> dir]

\* e.PersistRootKey(rootKey): the error, and the receiver and the keystore
\* directory as the call leaves them; ioErr is the error os.WriteFile meets
\* ("" for none)
PersistRootKey(e, kind, dir, rootKey, ioErr) ==
    LET buf == jsonMarshal(rootKey)
        path == KeyFileName(rootKey.Meta.KeyID)
    IN IF kind # "dir" THEN [err |-> "no such directory", e |-> e, dir |-> dir]
       ELSE IF ioErr # "" THEN [err |-> ioErr, e |-> e, dir |-> dir]
       ELSE [err |-> "", e |-> e, dir |-> MapPut(dir, path, File(buf))]

\* the record of a call: op, its arguments, and what it returned
Call(op, keyID, alg, data, out, outNil, key, err) ==
    [op |-> op, keyID |-> keyID, alg |-> alg, data |-> data, out |-> out,
     outNil |-> outNil, key |-> key, err |-> err]

NoCall == Call("none", "", "", <<>>, <<>>, TRUE, NilRootKey, "")

\* key IDs in use: on disk, in the keyring or handed to a caller
UsedIDs ==
    {id \in KeyIDs : KeyFileName(id) \in DOMAIN disk}
    \cup (DOMAIN encrypter.ciphers)
    \cup {held.Meta.KeyID}

\* NewEncrypter(): MkdirAll of the keystore path, then the load; either
\* failing panics
NewEncrypter ==
    /\ proc = "running"
    /\ \E mkErr \in (IF rootKind = "file" THEN {"not a directory"}
                      ELSE IF rootKind = "missing" THEN {"", "permission denied"}
                      ELSE {""}) :
         IF mkErr # ""
         THEN /\ proc' = "panicked"
              /\ last' = Call("NewEncrypter", "", "", <<>>, <<>>, TRUE, NilRootKey, mkErr)
              /\ UNCHANGED <<rootKind, encrypter>>
         ELSE /\ rootKind' = IF rootKind = "missing" THEN "dir" ELSE rootKind
              /\ \E r \in {encrypterFromKeystore(rootKind', disk)} :
                   /\ IF r.err # ""
                      THEN /\ proc' = "panicked"
                           /\ UNCHANGED encrypter
                      ELSE /\ proc' = proc
                           /\ encrypter' = r.e
                   /\ last' = Call("NewEncrypter", "", "", <<>>, <<>>, r.err # "",
                                   NilRootKey, r.err)
    /\ UNCHANGED <<disk, held, produced, persisted, statsVars, trackerVars>>

\* a direct call of encrypterFromKeystore on the keystore directory
LoadKeystore ==
    /\ proc = "running"
    /\ \E r \in {encrypterFromKeystore(rootKind, disk)} :
         /\ encrypter' = r.e
         /\ last' = Call("encrypterFromKeystore", "", "", <<>>, <<>>, r.e.isNil, NilRootKey, r.err)
    /\ UNCHANGED <<rootKind, disk, proc, held, produced, persisted, statsVars, trackerVars>>

DoEncrypt ==
    /\ proc = "running"
    /\ ~encrypter.isNil
    /\ \E m \in Msgs, k \in KeyIDs :
         \E out \in {Encrypt(encrypter, m, k)} :
         /\ last' = Call("Encrypt", k, "", m, out, FALSE, NilRootKey, "")
         /\ produced' = IF Cardinality(produced) < MaxEnvelopes
                        THEN produced \cup {[env |-> out, keyID |-> k, plain |-> m]}
                        ELSE produced
    /\ UNCHANGED <<rootKind, disk, encrypter, proc, held, persisted, statsVars, trackerVars>>

\* e with bit i of byte j flipped
FlipBit(e, j, i) ==
    LET w == IF i = 0 THEN 1 ELSE IF i = 1 THEN 2 ELSE IF i = 2 THEN 4
             ELSE IF i = 3 THEN 8 ELSE IF i = 4 THEN 16 ELSE IF i = 5 THEN 32
             ELSE IF i = 6 THEN 64 ELSE 128
    IN [e EXCEPT ![j] = IF (e[j] \div w) % 2 = 1 THEN e[j] - w ELSE e[j] + w]

OneBitFlips(e) == {FlipBit(e, j, i) : j \in 1..Len(e), i \in 0..7}

DoDecrypt ==
    /\ proc = "running"
    /\ ~encrypter.isNil
    /\ \E d \in Msgs \cup UNION {OneBitFlips(p.env) : p \in produced}, k \in KeyIDs :
         \E r \in {Decrypt(encrypter, d, k)} :
         last' = Call("Decrypt", k, "", d, r.out, r.err # "", NilRootKey, r.err)
    /\ UNCHANGED <<rootKind, disk, encrypter, proc, held, produced, persisted, statsVars, trackerVars>>

DoGenerate ==
    /\ proc = "running"
    /\ ~encrypter.isNil
    /\ \E alg \in Algorithms, id \in KeyIDs \ UsedIDs, rnd \in RandomKeys,
          rndErr \in {"", "entropy"} :
         \E r \in {GenerateNewRootKey(encrypter, disk, alg, id, rnd, rndErr)} :
         /\ held' = r.rootKey
         /\ encrypter' = r.e
         /\ disk' = r.dir
         /\ last' = Call("GenerateNewRootKey", "", alg, <<>>, <<>>, TRUE, r.rootKey, r.err)
    /\ UNCHANGED <<rootKind, proc, produced, persisted, statsVars, trackerVars>>

DoPersist ==
    /\ proc = "running"
    /\ ~encrypter.isNil
    /\ ~held.isNil
    /\ \E ioErr \in {"", "disk full"} :
         \E r \in {PersistRootKey(encrypter, rootKind, disk, held, ioErr)} :
         /\ disk' = r.dir
         /\ encrypter' = r.e
         /\ persisted' = IF r.err = "" THEN persisted \cup {held} ELSE persisted
         /\ last' = Call("PersistRootKey", held.Meta.KeyID, "", <<>>, <<>>, TRUE, held, r.err)
    /\ UNCHANGED <<rootKind, proc, held, produced, statsVars, trackerVars>>

\* the owning process stops (shutdown or crash) and a new one starts: what
\* was held in memory is gone, the keystore directory stays
Restart ==
    /\ last.op # "Restart"
    /\ proc' = "running"
    /\ encrypter' = NoEncrypter
    /\ held' = NilRootKey
    /\ produced' = {}
    /\ last' = Call("Restart", "", "", <<>>, <<>>, TRUE, NilRootKey, "")
    /\ UNCHANGED <<rootKind, disk, persisted, statsVars, trackerVars>>

----------------------------------------------------------------------------
(* Keystore directories the process may find at start *)

GoodKey(id, alg) ==
    File(jsonMarshal([isNil |-> FALSE, Meta |-> [KeyID |-> id, Algorithm |-> alg],
                      Key |-> Bytes(32, 7)]))

KeyOfLen(id, alg, n) ==
    File(jsonMarshal([isNil |-> FALSE, Meta |-> [KeyID |-> id, Algorithm |-> alg],
                      Key |-> Bytes(n, 9)]))

InitialDirs ==
    { EmptyMap,
      (KeyFileName("id1") :> GoodKey("id1", EncryptionAlgorithmAES256GCM)),
      (KeyFileName("id1") :> GoodKey("id1", EncryptionAlgorithmXChaCha20)),
      (KeyFileName("id1") :> GoodKey("id1", EncryptionAlgorithmAES256GCM))
         @@ (KeyFileName("id2") :> File(GarbageDoc)),
      (KeyFileName("id1") :> GoodKey("id1", EncryptionAlgorithmAES256GCM))
         @@ (KeyFileName("id2") :> GoodKey("id1", EncryptionAlgorithmAES256GCM)),
      (KeyFileName("id1") :> GoodKey("id1", EncryptionAlgorithmAES256GCM))
         @@ (KeyFileName("id2") :> GoodKey("", EncryptionAlgorithmAES256GCM)),
      (KeyFileName("id1") :> GoodKey("id1", "")),
      (KeyFileName("id1") :> GoodKey("id1", "rot13")),
      (KeyFileName("id1") :> File(Document(TRUE, FALSE, "", "", <<>>))),
      (KeyFileName("id1") :> KeyOfLen("id1", EncryptionAlgorithmAES256GCM, 16)),
      (KeyFileName("id1") :> KeyOfLen("id1", EncryptionAlgorithmXChaCha20, 31)),
      (KeyFileName("id1") :> KeyOfLen("id1", EncryptionAlgorithmAES256GCM, 33)),
      (KeyFileName("id1") :> GoodKey("id1", EncryptionAlgorithmAES256GCM))
         @@ ([base |-> "id1", ext |-> ".txt"] :> File(GarbageDoc))
         @@ ([base |-> "notes", ext |-> ".json"] :> File(GarbageDoc))
         @@ ([base |-> "sub", ext |-> ""] :> Dir) }

\* NewBlockedStats(): no evaluation blocked, no call made yet
InitTracker ==
    /\ bstats = [TotalEscaped |-> 0, TotalBlocked |-> 0, TotalQuotaLimit |-> 0,
                 BlockedResources |-> [isNil |-> FALSE, ByJob |-> EmptyMap,
                                       ByNode |-> EmptyMap]]
    /\ blocked = {}
    /\ clock = 0
    /\ trackerLast = [op |-> "none", eval |-> "", panicked |-> FALSE]

InitStatsIdle ==
    /\ statsB = [isNil |-> TRUE, ByJob |-> EmptyMap, ByNode |-> EmptyMap]
    /\ statsA = [isNil |-> TRUE, ByJob |-> EmptyMap, ByNode |-> EmptyMap]
    /\ statsResult = [isNil |-> TRUE, ByJob |-> EmptyMap, ByNode |-> EmptyMap]
    /\ InitTracker

InitKeystore ==
    /\ rootKind \in {"missing", "dir", "file", "unreadable"}
    /\ disk \in InitialDirs
    /\ rootKind # "dir" => disk = EmptyMap
    /\ proc = "running"
    /\ held = NilRootKey
    /\ produced = {}
    /\ persisted = {}
    /\ last = NoCall

\* a process that has not built its Encrypter yet
Init ==
    /\ InitKeystore
    /\ encrypter = NoEncrypter
    /\ InitStatsIdle

KeyringNext ==
    \/ NewEncrypter
    \/ LoadKeystore
    \/ DoEncrypt
    \/ DoDecrypt
    \/ DoGenerate
    \/ DoPersist
    \/ Restart

Next == KeyringNext

Spec == Init /\ [][Next]_vars

\* Encrypter values a caller may hold: every registry over the key IDs
HeldEncrypters ==
    {[isNil |-> FALSE,
      ciphers |-> [k \in S |-> [alg |-> EncryptionAlgorithmAES256GCM, key |-> Bytes(32, 7)]]]
       : S \in SUBSET KeyIDs}

InitHeld ==
    /\ InitKeystore
    /\ encrypter \in HeldEncrypters
    /\ InitStatsIdle

\* the operations applied to an Encrypter value drawn from HeldEncrypters
SpecHeld == InitHeld /\ [][Next]_vars

----------------------------------------------------------------------------
(* blocked_evals_stats.go: BlockedResourcesSummary and BlockedResourcesStats *)

\* a *BlockedResourcesSummary; isNil marks the nil pointer
Summary(t, cpu, mem) == [isNil |-> FALSE, Timestamp |-> t, CPU |-> cpu, MemoryMB |-> mem]

NilSummary == [isNil |-> TRUE, Timestamp |-> 0, CPU |-> 0, MemoryMB |-> 0]

\* m[k] of a Go map of pointers: nil when k is absent
MapGet(m, k) == IF k \in DOMAIN m THEN m[k] ELSE NilSummary

BlockedResourcesSummary_Copy(b) == Summary(b.Timestamp, b.CPU, b.MemoryMB)

\* an Add that keeps the receiver's timestamp
BlockedResourcesSummary_AddKeepsTimestamp(b, a) ==
    IF b.isNil THEN BlockedResourcesSummary_Copy(a)
    ELSE Summary(b.Timestamp, b.CPU + a.CPU, b.MemoryMB + a.MemoryMB)

BlockedResourcesSummary_Add(b, a) ==
    IF b.isNil THEN BlockedResourcesSummary_Copy(a)
    ELSE Summary(a.Timestamp, b.CPU + a.CPU, b.MemoryMB + a.MemoryMB)

\* a *BlockedResourcesStats; isNil marks the nil pointer
Stats(byJob, byNode) == [isNil |-> FALSE, ByJob |-> byJob, ByNode |-> byNode]

NilStats == [isNil |-> TRUE, ByJob |-> EmptyMap, ByNode |-> EmptyMap]

NewBlockedResourcesStats == Stats(EmptyMap, EmptyMap)

BlockedResourcesStats_Copy(b) ==
    Stats([k \in DOMAIN b.ByJob |-> BlockedResourcesSummary_Copy(b.ByJob[k])],
          [k \in DOMAIN b.ByNode |-> BlockedResourcesSummary_Copy(b.ByNode[k])])

BlockedResourcesStats_Add(b, a) ==
    LET result == BlockedResourcesStats_Copy(b) IN
    Stats([k \in (DOMAIN result.ByJob) \cup (DOMAIN a.ByJob) |->
             IF k \in DOMAIN a.ByJob
             THEN BlockedResourcesSummary_Add(MapGet(b.ByJob, k), a.ByJob[k])
             ELSE result.ByJob[k]],
          [k \in (DOMAIN result.ByNode) \cup (DOMAIN a.ByNode) |->
             IF k \in DOMAIN a.ByNode
             THEN BlockedResourcesSummary_Add(MapGet(b.ByNode, k), a.ByNode[k])
             ELSE result.ByNode[k]])

\* structs.NamespacedID keys and node keys
JobKeys == {[ID |-> "1", Namespace |-> "one"], [ID |-> "2", Namespace |-> "two"]}
NodeKeys == {[dc |-> "dc1", class |-> "alpha"], [dc |-> "dc1", class |-> "beta"]}

\* every map from a subset of K to V
Maps(K, V) == UNION {[S -> V] : S \in SUBSET K}

\* summaries of the receiver (older timestamp) and of the argument
ReceiverSummaries == {Summary(0, c, c + 1) : c \in 0..MaxStat}
ArgumentSummaries == {Summary(t, c, c + 1) : t \in 1..MaxTime, c \in 0..MaxStat}

\* result := b.Add(a) on the operands held in statsB and statsA
DoStatsAdd ==
    /\ statsResult' = BlockedResourcesStats_Add(statsB, statsA)
    /\ UNCHANGED <<statsB, statsA, keyringVars, trackerVars>>

InitStats ==
    /\ rootKind = "dir"
    /\ disk = EmptyMap
    /\ encrypter = NoEncrypter
    /\ proc = "running"
    /\ held = NilRootKey
    /\ produced = {}
    /\ persisted = {}
    /\ last = NoCall
    /\ statsB \in {Stats(j, n) : j \in Maps(JobKeys, ReceiverSummaries),
                                 n \in Maps(NodeKeys, ReceiverSummaries)}
    /\ statsA \in {Stats(j, n) : j \in Maps(JobKeys, ArgumentSummaries),
                                 n \in Maps(NodeKeys, ArgumentSummaries)}
    /\ statsResult = NilStats
    /\ InitTracker

StatsNext == DoStatsAdd

\* BlockedResourcesStats.Add applied to operands drawn from bounded sets
SpecStats == InitStats /\ [][StatsNext]_vars

----------------------------------------------------------------------------
(* blocked_evals_stats.go: BlockedStats, the blocked eval tracker's stats  *)

\* a Subtract whose receiver is nil dereferences it: panic marks that
BlockedResourcesSummary_Subtract(b, a) ==
    IF b.isNil THEN [panic |-> TRUE, val |-> NilSummary]
    ELSE [panic |-> FALSE,
          val |-> Summary(a.Timestamp, b.CPU - a.CPU, b.MemoryMB - a.MemoryMB)]

BlockedResourcesSummary_IsZero(b) == b.CPU = 0 /\ b.MemoryMB = 0

\* a Subtract that leaves the per-node values as they are
BlockedResourcesStats_SubtractJobsOnly(b, a) ==
    [panic |-> \E k \in DOMAIN a.ByJob : k \notin DOMAIN b.ByJob,
     val |-> Stats([k \in (DOMAIN b.ByJob) \cup (DOMAIN a.ByJob) |->
                      IF k \in DOMAIN a.ByJob
                      THEN BlockedResourcesSummary_Subtract(MapGet(b.ByJob, k),
                                                            a.ByJob[k]).val
                      ELSE b.ByJob[k]],
                   b.ByNode)]

\* b.Subtract(a): panic when one of the summaries it subtracts from is nil,
\* otherwise val is the returned stats
BlockedResourcesStats_Subtract(b, a) ==
    [panic |->
        \/ \E k \in DOMAIN a.ByJob :
              BlockedResourcesSummary_Subtract(MapGet(b.ByJob, k), a.ByJob[k]).panic
        \/ \E k \in DOMAIN a.ByNode :
              BlockedResourcesSummary_Subtract(MapGet(b.ByNode, k), a.ByNode[k]).panic,
     val |->
        Stats([k \in (DOMAIN b.ByJob) \cup (DOMAIN a.ByJob) |->
                 IF k \in DOMAIN a.ByJob
                 THEN BlockedResourcesSummary_Subtract(MapGet(b.ByJob, k),
                                                       a.ByJob[k]).val
                 ELSE BlockedResourcesSummary_Copy(b.ByJob[k])],
              [k \in (DOMAIN b.ByNode) \cup (DOMAIN a.ByNode) |->
                 IF k \in DOMAIN a.ByNode
                 THEN BlockedResourcesSummary_Subtract(MapGet(b.ByNode, k),
                                                       a.ByNode[k]).val
                 ELSE BlockedResourcesSummary_Copy(b.ByNode[k])])]

\* generateResourceStats, the loop over allocMetrics.ResourcesExhausted:
\* resources with the entries of exhausted at the keys tasks added
RECURSIVE addResourcesExhausted(_, _, _)
addResourcesExhausted(resources, exhausted, tasks) ==
    IF tasks = {} THEN resources
    ELSE LET t == CHOOSE x \in tasks : TRUE IN
         addResourcesExhausted(
             Summary(resources.Timestamp, resources.CPU + exhausted[t].CPU,
                     resources.MemoryMB + exhausted[t].MemoryMB),
             exhausted, tasks \ {t})

\* generateResourceStats, the loop over eval.FailedTGAllocs: resources with
\* the exhausted resources of the task groups tgs added
RECURSIVE addFailedTGAllocs(_, _, _)
addFailedTGAllocs(resources, allocs, tgs) ==
    IF tgs = {} THEN resources
    ELSE LET tg == CHOOSE x \in tgs : TRUE IN
         addFailedTGAllocs(
             addResourcesExhausted(resources, allocs[tg].ResourcesExhausted,
                                   DOMAIN allocs[tg].ResourcesExhausted),
             allocs, tgs \ {tg})

\* the sets dcs and classes generateResourceStats collects
evalDCs(eval) ==
    UNION {DOMAIN eval.FailedTGAllocs[tg].NodesAvailable : tg \in DOMAIN eval.FailedTGAllocs}

evalClasses(eval) ==
    UNION {DOMAIN eval.FailedTGAllocs[tg].ClassExhausted : tg \in DOMAIN eval.FailedTGAllocs}

NewNamespacedID(id, ns) == [ID |-> id, Namespace |-> ns]

\* generateResourceStats from byJob on: the one summary resources is put
\* under the job's key and under every (dc, class) key
statsOfResources(eval, resources) ==
    Stats([k \in {NewNamespacedID(eval.JobID, eval.Namespace)} |-> resources],
          [k \in {[dc |-> d, class |-> c] : d \in evalDCs(eval), c \in evalClasses(eval)}
             |-> resources])

\* generateResourceStats(eval), now being what time.Now() returns
generateResourceStats(eval, now) ==
    statsOfResources(eval,
        addFailedTGAllocs(Summary(now, 0, 0), eval.FailedTGAllocs,
                          DOMAIN eval.FailedTGAllocs))

\* b.Block(eval): the BlockedStats afterwards
Block(b, eval, now) ==
    [b EXCEPT !.TotalBlocked = b.TotalBlocked + 1,
              !.BlockedResources =
                  BlockedResourcesStats_Add(b.BlockedResources,
                                            generateResourceStats(eval, now))]

\* Unblock from the call of Subtract on: sub is what Subtract did; when it
\* panicked BlockedResources was not assigned
unblockAssign(b, sub) ==
    [panic |-> sub.panic,
     b |-> IF sub.panic THEN b ELSE [b EXCEPT !.BlockedResources = sub.val]]

\* b.Unblock(eval): whether it panicked, and the BlockedStats afterwards
Unblock(b, eval, now) ==
    unblockAssign([b EXCEPT !.TotalBlocked = b.TotalBlocked - 1],
                  BlockedResourcesStats_Subtract(b.BlockedResources,
                                                 generateResourceStats(eval, now)))

\* the closure shouldPrune of prune
shouldPrune(s, cutoff) == s.Timestamp < cutoff /\ BlockedResourcesSummary_IsZero(s)

\* b.prune(cutoff): the BlockedStats afterwards
prune(b, cutoff) ==
    [b EXCEPT !.BlockedResources =
        Stats([k \in {x \in DOMAIN b.BlockedResources.ByJob :
                         ~shouldPrune(b.BlockedResources.ByJob[x], cutoff)}
                 |-> b.BlockedResources.ByJob[k]],
              [k \in {x \in DOMAIN b.BlockedResources.ByNode :
                         ~shouldPrune(b.BlockedResources.ByNode[x], cutoff)}
                 |-> b.BlockedResources.ByNode[k]])]

\* an AllocMetric: the datacenters with nodes available, the node classes
\* exhausted and the resources exhausted, by task
AllocMetric(dcs, classes, exhausted) ==
    [NodesAvailable |-> [d \in dcs |-> 1],
     ClassExhausted |-> [c \in classes |-> 1],
     ResourcesExhausted |-> exhausted]

Resources(cpu, mem) == [CPU |-> cpu, MemoryMB |-> mem]

\* the evaluations the tracker is given
Evals ==
    { \* one task group of job 1 that lacks CPU and memory on dc1/alpha
      [ID |-> "e1", JobID |-> "1", Namespace |-> "one",
       FailedTGAllocs |->
         [tg \in {"web"} |-> AllocMetric({"dc1"}, {"alpha"},
                               [t \in {"t1"} |-> Resources(1, 2)])]],
      \* two task groups of job 1, on dc1/alpha and dc1/beta
      [ID |-> "e2", JobID |-> "1", Namespace |-> "one",
       FailedTGAllocs |->
         [tg \in {"web", "db"} |->
            IF tg = "web"
            THEN AllocMetric({"dc1"}, {"alpha"},
                             [t \in {"t1", "t2"} |-> Resources(1, 1)])
            ELSE AllocMetric({"dc1"}, {"beta"}, [t \in {"t1"} |-> Resources(0, 1)])]],
      \* job 2, blocked on dc1/beta with no resource exhausted
      [ID |-> "e3", JobID |-> "2", Namespace |-> "two",
       FailedTGAllocs |->
         [tg \in {"web"} |-> AllocMetric({"dc1"}, {"beta"}, [t \in {} |-> Resources(0, 0)])]],
      \* job 2, no node class exhausted
      [ID |-> "e4", JobID |-> "2", Namespace |-> "two",
       FailedTGAllocs |->
         [tg \in {"web"} |-> AllocMetric({"dc1"}, {}, [t \in {"t1"} |-> Resources(2, 0)])]] }

\* the times time.Now() may return next
Nows == {t \in clock..(clock + 1) : t <= MaxClock}

DoBlock ==
    /\ ~trackerLast.panicked
    /\ \E eval \in Evals \ blocked, now \in Nows :
         /\ bstats' = Block(bstats, eval, now)
         /\ blocked' = blocked \cup {eval}
         /\ clock' = now
         /\ trackerLast' = [op |-> "Block", eval |-> eval.ID, panicked |-> FALSE]
    /\ UNCHANGED <<keyringVars, statsVars>>

\* Unblock of an evaluation that is blocked
DoUnblock ==
    /\ ~trackerLast.panicked
    /\ \E eval \in blocked, now \in Nows :
         \E r \in {Unblock(bstats, eval, now)} :
            /\ bstats' = r.b
            /\ blocked' = blocked \ {eval}
            /\ clock' = now
            /\ trackerLast' = [op |-> "Unblock", eval |-> eval.ID, panicked |-> r.panic]
    /\ UNCHANGED <<keyringVars, statsVars>>

DoPrune ==
    /\ ~trackerLast.panicked
    /\ \E cutoff \in 0..(MaxClock + 1) :
         /\ bstats' = prune(bstats, cutoff)
         /\ trackerLast' = [op |-> "prune", eval |-> "", panicked |-> FALSE]
    /\ UNCHANGED <<blocked, clock, keyringVars, statsVars>>

InitKeyringIdle ==
    /\ rootKind = "dir"
    /\ disk = EmptyMap
    /\ encrypter = NoEncrypter
    /\ proc = "running"
    /\ held = NilRootKey
    /\ produced = {}
    /\ persisted = {}
    /\ last = NoCall

InitBlockedStats ==
    /\ InitKeyringIdle
    /\ statsB = NilStats
    /\ statsA = NilStats
    /\ statsResult = NilStats
    /\ InitTracker

BlockUnblockNext == DoBlock \/ DoUnblock

\* Block and Unblock on a new BlockedStats, no prune
SpecBlockUnblock == InitBlockedStats /\ [][BlockUnblockNext]_vars

TrackerNext == DoBlock \/ DoUnblock \/ DoPrune

\* Block, Unblock and prune on a new BlockedStats
SpecTracker == InitBlockedStats /\ [][TrackerNext]_vars

----------------------------------------------------------------------------
(* The claims *)

\* C1: when every file of the keystore directory was written by
\* PersistRootKey for a root key of a supported algorithm with 32 key bytes,
\* loading the directory succeeds and registers each of those keys under
\* its key ID with the same key material
C1_PersistThenLoad ==
    (/\ last.op \in {"encrypterFromKeystore", "NewEncrypter"}
     /\ rootKind = "dir"
     /\ persisted # {}
     /\ DOMAIN disk = {KeyFileName(k.Meta.KeyID) : k \in persisted}
     /\ \A k \in persisted :
          k.Meta.Algorithm \in SupportedAlgorithms /\ Len(k.Key) = 32)
    => /\ last.err = ""
       /\ ~encrypter.isNil
       /\ \A k \in persisted :
            /\ k.Meta.KeyID \in DOMAIN encrypter.ciphers
            /\ encrypter.ciphers[k.Meta.KeyID].key = k.Key

\* C2: loading a directory that holds a file <key ID>.json which is not
\* JSON, or whose key ID is empty or differs from the file name, or whose
\* algorithm is missing or unknown, returns an error and no Encrypter
C2_FailClosed ==
    (/\ last.op = "encrypterFromKeystore"
     /\ rootKind = "dir"
     /\ \E n \in DOMAIN disk :
          /\ n.ext = ".json" /\ IsUUID(n.base) /\ ~disk[n].isDir
          /\ \/ ~disk[n].doc.valid
             \/ disk[n].doc.KeyID = ""
             \/ disk[n].doc.KeyID # n.base
             \/ disk[n].doc.Algorithm \notin SupportedAlgorithms)
    => last.err # "" /\ encrypter.isNil

\* C3: decrypting, with a key ID registered in the keyring, an envelope that
\* Encrypt produced for message m under that key ID returns m and no error
C3_RoundTrip ==
    \A p \in produced :
        (/\ last.op = "Decrypt"
         /\ last.data = p.env
         /\ last.keyID = p.keyID
         /\ p.keyID \in DOMAIN encrypter.ciphers)
        => last.err = "" /\ ~last.outNil /\ last.out = p.plain

\* C3 happens: a non-empty message went through Encrypt and Decrypt under a
\* registered key ID
C3_Witness ==
    \E p \in produced :
        /\ last.op = "Decrypt"
        /\ last.data = p.env
        /\ last.keyID = p.keyID
        /\ p.keyID \in DOMAIN encrypter.ciphers
        /\ Len(p.plain) > 0
        /\ last.out = p.plain

\* C4: Encrypt and Decrypt called with a key ID that is not registered in
\* the keyring fail with KeyNotFound and return no data
C4_KeyNotFound ==
    (/\ last.op \in {"Encrypt", "Decrypt"}
     /\ last.keyID \notin DOMAIN encrypter.ciphers)
    => last.err = "KeyNotFound" /\ last.outNil

\* C5: Decrypt of an envelope that differs in exactly one bit from one
\* Encrypt produced under the same key ID fails with DecryptionFailed and
\* returns no plaintext
C5_TamperDetected ==
    \A p \in produced :
        (/\ last.op = "Decrypt"
         /\ last.keyID = p.keyID
         /\ last.data \in OneBitFlips(p.env))
        => last.err = "DecryptionFailed" /\ last.outNil

\* C6: GenerateNewRootKey with an algorithm that is neither aes256-gcm nor
\* xchacha20poly1305 returns an UnsupportedAlgorithm error and a nil key,
\* and registers nothing
C6_UnsupportedAlgorithm ==
    [][(/\ last'.op = "GenerateNewRootKey"
        /\ last'.alg \notin SupportedAlgorithms)
       => /\ last'.err = "UnsupportedAlgorithm"
          /\ last'.key.isNil
          /\ encrypter'.ciphers = encrypter.ciphers]_vars

\* C7: a step of GenerateNewRootKey or PersistRootKey, failing or not,
\* leaves the registered keys (Encrypter.ciphers) as they were, and a step
\* of GenerateNewRootKey leaves the keystore directory as it was
C7_Frame ==
    [][(last'.op \in {"GenerateNewRootKey", "PersistRootKey"})
       => /\ encrypter' = encrypter
          /\ (last'.op = "GenerateNewRootKey"
                => disk' = disk /\ rootKind' = rootKind)]_vars

\* C7 happens: PersistRootKey wrote the file of a key that is not registered
\* while other keys are
C7_Witness ==
    /\ last.op = "PersistRootKey"
    /\ last.err = ""
    /\ KeyFileName(last.keyID) \in DOMAIN disk
    /\ DOMAIN encrypter.ciphers # {}
    /\ last.keyID \notin DOMAIN encrypter.ciphers

\* C8: on loading, a well-formed key file of a supported algorithm whose
\* base64 Key field holds other than 32 bytes makes the load fail, and when
\* every key file is well-formed with 32 bytes the load succeeds with a
\* cipher built for each
C8_KeyLength ==
    (last.op = "encrypterFromKeystore" /\ rootKind = "dir") =>
      LET keyFiles == {n \in DOMAIN disk :
                          n.ext = ".json" /\ IsUUID(n.base) /\ ~disk[n].isDir}
          wellFormed(n) == /\ disk[n].doc.valid
                           /\ disk[n].doc.hasMeta
                           /\ disk[n].doc.KeyID = n.base
                           /\ disk[n].doc.Algorithm \in SupportedAlgorithms
                           /\ WellFormedBase64(disk[n].doc.Key)
          rawLen(n) == Decode(DecodedLen(Len(disk[n].doc.Key)), disk[n].doc.Key).n
      IN /\ (\E n \in keyFiles : wellFormed(n) /\ rawLen(n) # 32)
               => last.err # ""
         /\ (\A n \in keyFiles : wellFormed(n) /\ rawLen(n) = 32)
               => /\ last.err = ""
                  /\ \A n \in keyFiles : n.base \in DOMAIN encrypter.ciphers

\* C9: NewEncrypter reports a failure to create or load the keystore to its
\* caller; the process goes on running
C9_NoPanic ==
    (last.op = "NewEncrypter" /\ last.err # "") => proc = "running"

\* C10: b.Add(a) returns stats whose ByJob and ByNode keys are the union of
\* the operands' keys; a key of a gets b's CPU and MemoryMB (zero when b
\* lacks the key) plus a's, and a's Timestamp; a key of b alone is copied;
\* b and a stay as they were
C10_Add ==
    [][(statsResult' # statsResult) =>
        LET sumOK(bm, am, rm) ==
              /\ DOMAIN rm = (DOMAIN bm) \cup (DOMAIN am)
              /\ \A k \in DOMAIN am :
                    /\ ~rm[k].isNil
                    /\ rm[k].CPU = (IF k \in DOMAIN bm THEN bm[k].CPU ELSE 0) + am[k].CPU
                    /\ rm[k].MemoryMB
                         = (IF k \in DOMAIN bm THEN bm[k].MemoryMB ELSE 0) + am[k].MemoryMB
                    /\ rm[k].Timestamp = am[k].Timestamp
              /\ \A k \in (DOMAIN bm) \ (DOMAIN am) : rm[k] = bm[k]
        IN /\ ~statsResult'.isNil
           /\ sumOK(statsB.ByJob, statsA.ByJob, statsResult'.ByJob)
           /\ sumOK(statsB.ByNode, statsA.ByNode, statsResult'.ByNode)
           /\ statsB' = statsB
           /\ statsA' = statsA]_vars

\* C10 happens: Add has returned for operands that share a job key, with a
\* job key only the receiver has and a node key only the argument has
C10_Witness ==
    /\ ~statsResult.isNil
    /\ (DOMAIN statsB.ByJob) \cap (DOMAIN statsA.ByJob) # {}
    /\ (DOMAIN statsB.ByJob) \ (DOMAIN statsA.ByJob) # {}
    /\ (DOMAIN statsA.ByNode) \ (DOMAIN statsB.ByNode) # {}

\* C11: while only Block and Unblock are called and every Unblock is of a
\* blocked evaluation, TotalBlocked is the number of blocked evaluations, and
\* under every job key and every (datacenter, class) key the tracked CPU and
\* MemoryMB are the sums of the exhausted resources of the blocked
\* evaluations that contribute to the key: never negative, and zero when
\* nothing is blocked
C11_BlockUnblockSums ==
    LET units(e, f) ==
            UNION {UNION {{<<e.ID, tg, t, i>> :
                             i \in 1..e.FailedTGAllocs[tg].ResourcesExhausted[t][f]} :
                          t \in DOMAIN e.FailedTGAllocs[tg].ResourcesExhausted} :
                   tg \in DOMAIN e.FailedTGAllocs}
        sum(S, f) == Cardinality(UNION {units(e, f) : e \in S})
        ofJob(k) == {e \in blocked : e.JobID = k.ID /\ e.Namespace = k.Namespace}
        ofNode(k) ==
            {e \in blocked :
               /\ \E tg \in DOMAIN e.FailedTGAllocs :
                     k.dc \in DOMAIN e.FailedTGAllocs[tg].NodesAvailable
               /\ \E tg \in DOMAIN e.FailedTGAllocs :
                     k.class \in DOMAIN e.FailedTGAllocs[tg].ClassExhausted}
        tracks(m, k, S) ==
            /\ MapGet(m, k).CPU = sum(S, "CPU")
            /\ MapGet(m, k).MemoryMB = sum(S, "MemoryMB")
            /\ MapGet(m, k).CPU >= 0
            /\ MapGet(m, k).MemoryMB >= 0
            /\ blocked = {} => MapGet(m, k).CPU = 0 /\ MapGet(m, k).MemoryMB = 0
    IN  /\ bstats.TotalBlocked = Cardinality(blocked)
        /\ DOMAIN bstats.BlockedResources.ByJob \subseteq JobKeys
        /\ DOMAIN bstats.BlockedResources.ByNode \subseteq NodeKeys
        /\ \A k \in JobKeys : tracks(bstats.BlockedResources.ByJob, k, ofJob(k))
        /\ \A k \in NodeKeys : tracks(bstats.BlockedResources.ByNode, k, ofNode(k))

\* C11 happens: an Unblock has left two evaluations of job 1 blocked, whose
\* resources add up under the job's key and under dc1/alpha
C11_Witness ==
    /\ trackerLast.op = "Unblock"
    /\ {e.ID : e \in blocked} = {"e1", "e2"}
    /\ bstats.TotalBlocked = 2
    /\ bstats.BlockedResources.ByJob[[ID |-> "1", Namespace |-> "one"]].CPU = 3
    /\ bstats.BlockedResources.ByNode[[dc |-> "dc1", class |-> "alpha"]].MemoryMB = 5
    /\ bstats.BlockedResources.ByNode[[dc |-> "dc1", class |-> "beta"]].MemoryMB = 3

\* C12: in every run of Block, Unblock and prune, an Unblock of a blocked
\* evaluation completes: the summaries it subtracts from are not nil
C12_UnblockCompletes ==
    trackerLast.op = "Unblock" => ~trackerLast.panicked
====
